---- MODULE Spec2Model ----
(***************************************************************************)
(* Model of biscuit_flash.py: device discovery (list_com_ports,            *)
(* detect_chip_type, scan_for_devices), the flash executor (flash_device), *)
(* the operator prompts and the flash loop of main().                      *)
(*                                                                         *)
(* Text (port names, tool output, operator input) is a sequence of         *)
(* one-character strings, so that substring tests, lower() and strip()     *)
(* are computed as the code computes them.                                 *)
(***************************************************************************)
EXTENDS Integers, Sequences, FiniteSets, TLC

(***************************************************************************)
(* Bounds of the model.                                                    *)
(***************************************************************************)
\* number of serial ports that can be attached to the workstation
MaxPorts == 2
\* number of "erase" choices the operator makes in one attempt sequence
MaxErase == 2

(***************************************************************************)
(* Text helpers: str.lower, str.strip, the "in" substring test, isdigit.   *)
(***************************************************************************)
UpperChars == <<"A","B","C","D","E","F","G","H","I","J","K","L","M",
                "N","O","P","Q","R","S","T","U","V","W","X","Y","Z">>
LowerChars == <<"a","b","c","d","e","f","g","h","i","j","k","l","m",
                "n","o","p","q","r","s","t","u","v","w","x","y","z">>
DigitChars == <<"0","1","2","3","4","5","6","7","8","9">>

\* str.lower() on one character
LowerChar(c) ==
    IF \E i \in 1..Len(UpperChars) : UpperChars[i] = c
    THEN LowerChars[CHOOSE i \in 1..Len(UpperChars) : UpperChars[i] = c]
    ELSE c

\* str.lower()
Lower(s) == [i \in 1..Len(s) |-> LowerChar(s[i])]

\* the test "sub in s"
Contains(sub, s) ==
    \E i \in 0..(Len(s) - Len(sub)) : SubSeq(s, i + 1, i + Len(sub)) = sub

\* str.isdigit on one character
IsDigit(c) == \E i \in 1..Len(DigitChars) : DigitChars[i] = c

\* the value of one digit character
DigitVal(c) == (CHOOSE i \in 1..Len(DigitChars) : DigitChars[i] = c) - 1

IsSpace(c) == c = " "

\* str.strip()
RECURSIVE LStrip(_)
LStrip(s) == IF s # <<>> /\ IsSpace(Head(s)) THEN LStrip(Tail(s)) ELSE s
RECURSIVE RStrip(_)
RStrip(s) ==
    IF s # <<>> /\ IsSpace(s[Len(s)]) THEN RStrip(SubSeq(s, 1, Len(s) - 1)) ELSE s
Strip(s) == RStrip(LStrip(s))

(***************************************************************************)
(* Port identifiers (the .device of a port) and the port enumerator.       *)
(***************************************************************************)
PortPool == << <<"C","O","M","5">>,
               <<"u","1","p","2">>,
               <<"t","t","y","S">>,
               <<"C","O","M","3">>,
               <<"C","O","M","1","0">> >>

Min(a, b) == IF a < b THEN a ELSE b

\* the ports that can be attached
Ports == {PortPool[i] : i \in 1..Min(MaxPorts, Len(PortPool))}

\* devices[t] = None
NoPort == <<>>

\* the device types, in the order main() flashes them
Types == {"c5", "wroom"}

\* list_com_ports(): the attached ports in some order chosen by the platform
list_com_ports(attached) ==
    {s \in [1..Cardinality(attached) -> attached] :
        \A i, j \in 1..Cardinality(attached) : i # j => s[i] # s[j]}

\* port_exists(port), evaluated on the ports attached now
port_exists(port, attached) == port \in attached

(***************************************************************************)
(* Chip classifier.                                                        *)
(***************************************************************************)
s_esp32_c5 == <<"e","s","p","3","2","-","c","5">>
s_esp32c5  == <<"e","s","p","3","2","c","5">>
s_esp32_c  == <<"e","s","p","3","2","-","c">>
s_esp32c   == <<"e","s","p","3","2","c">>
s_esp32_d  == <<"e","s","p","3","2","-","d">>
s_esp32    == <<"e","s","p","3","2">>

\* chip_type None
NoChip == "None"

\* what the identify invocation (esptool chip_id) can do: exit with a code
\* and captured text, run into the timeout, or raise
IdentifyOutputs == { <<"E","S","P","3","2","-","C","5">>,
                     <<"E","S","P","3","2","-","C","3">>,
                     <<"E","S","P","3","2","-","D","0">>,
                     <<"n","o"," ","d","a","t","a">> }

IdentifyResults ==
    [kind : {"exit"}, code : {0, 2}, out : IdentifyOutputs]
    \cup {[kind |-> "timeout", code |-> 0, out |-> <<>>],
          [kind |-> "raise", code |-> 0, out |-> <<>>]}

\* texts of the identify invocation when detect_chip_type is run alone
ChipTexts ==
    { <<"E","S","P","3","2","-","C","5">>,
      <<"e","s","p","3","2","-","c","5">>,
      <<"E","s","p","3","2","-","c","5"," ","v","1">>,
      <<"E","S","P","3","2","C","5">>,
      <<"E","S","P","3","2","-","C","3">>,
      <<"e","s","p","3","2","c","3">>,
      <<"E","S","P","3","2","-","C","6">>,
      <<"E","S","P","3","2","-","C","6","1">>,
      <<"E","S","P","3","2","-","C","3"," ","E","S","P","3","2","-","C","5">>,
      <<"E","S","P","3","2","-","D","0","W","D">>,
      <<"E","S","P","3","2">>,
      <<"e","s","p","3","2","-","s","3">>,
      <<"E","S","P","3","2","-","P","I","C","O">>,
      <<"E","S","P","8","2","6","6">>,
      <<"n","o"," ","d","a","t","a">>,
      <<>> }

ChipResults ==
    [kind : {"exit"}, code : {0, 2}, out : ChipTexts \cup IdentifyOutputs]
    \cup {[kind |-> "timeout", code |-> 0, out |-> <<>>],
          [kind |-> "raise", code |-> 0, out |-> <<>>]}

\* detect_chip_type that tests for the plain ESP32 before the C series
detect_chip_type_esp32_first(r) ==
    IF r.kind # "exit" THEN NoChip
    ELSE LET output_lower == Lower(r.out) IN
         IF Contains(s_esp32_c5, output_lower) \/ Contains(s_esp32c5, output_lower)
         THEN "c5"
         ELSE IF Contains(s_esp32_d, output_lower) \/ Contains(s_esp32, output_lower)
         THEN "wroom"
         ELSE NoChip

\* detect_chip_type(port): the classification of one identify result
detect_chip_type(r) ==
    IF r.kind # "exit" THEN NoChip
    ELSE LET output_lower == Lower(r.out) IN
         IF Contains(s_esp32_c5, output_lower) \/ Contains(s_esp32c5, output_lower)
         THEN "c5"
         ELSE IF Contains(s_esp32_c, output_lower) \/ Contains(s_esp32c, output_lower)
         THEN NoChip
         ELSE IF Contains(s_esp32_d, output_lower) \/ Contains(s_esp32, output_lower)
         THEN "wroom"
         ELSE NoChip

(***************************************************************************)
(* Device scanner: probe order.                                            *)
(***************************************************************************)
\* int(''.join(filter(str.isdigit, p.device))), 0 on ValueError
RECURSIVE DigitsValue(_, _)
DigitsValue(s, acc) ==
    IF s = <<>> THEN acc
    ELSE IF IsDigit(Head(s)) THEN DigitsValue(Tail(s), acc * 10 + DigitVal(Head(s)))
    ELSE DigitsValue(Tail(s), acc)

get_port_num(p) ==
    IF \E i \in 1..Len(p) : IsDigit(p[i]) THEN DigitsValue(p, 0) ELSE 0

\* insert p into a sequence sorted by descending key, after every element
\* whose key is at least p's (the sort is stable)
RECURSIVE InsertDesc(_, _)
InsertDesc(p, sorted) ==
    IF sorted = <<>> THEN <<p>>
    ELSE IF get_port_num(Head(sorted)) >= get_port_num(p)
         THEN <<Head(sorted)>> \o InsertDesc(p, Tail(sorted))
         ELSE <<p>> \o sorted

\* sorted(ports, key=get_port_num, reverse=True)
RECURSIVE SortedPorts(_)
SortedPorts(ports) ==
    IF ports = <<>> THEN <<>>
    ELSE InsertDesc(ports[Len(ports)], SortedPorts(SubSeq(ports, 1, Len(ports) - 1)))

\* record_device with the c5 branch falling through into the wroom branch
record_device_fallthrough(devs, chip_type, port) ==
    IF chip_type = "c5" THEN [devs EXCEPT !["c5"] = port, !["wroom"] = port]
    ELSE IF chip_type = "wroom" THEN [devs EXCEPT !["wroom"] = port]
    ELSE devs

\* lines 209-216: record the port under the type it classified as
record_device(devs, chip_type, port) ==
    IF chip_type = "c5" THEN [devs EXCEPT !["c5"] = port]
    ELSE IF chip_type = "wroom" THEN [devs EXCEPT !["wroom"] = port]
    ELSE devs

\* line 219: both devices found
both_found(devs) == devs["c5"] # NoPort /\ devs["wroom"] # NoPort

(***************************************************************************)
(* Flash executor: results of the tool and their classification.           *)
(***************************************************************************)
s_failed_to_connect ==
    <<"F","a","i","l","e","d"," ","t","o"," ","c","o","n","n","e","c","t">>
s_timed_out == <<"T","i","m","e","d"," ","o","u","t">>
s_permission == <<"P","e","r","m","i","s","s","i","o","n">>

\* the error messages flash_device returns
ErrDisconnected  == "Device disconnected"
ErrEraseFailed   == "Erase failed"
ErrEraseTimedOut == "Erase timed out"
ErrConnectFailed == "Failed to connect (device not in download mode?)"
ErrConnectTimedOut == "Connection timed out"
ErrPortBusy      == "Permission denied (port in use by another program?)"
ErrFlashTimedOut == "Flash operation timed out"
ErrException     == "str(e)"
ErrExitCode(code) ==
    IF code = 1 THEN "Flash failed (exit code 1)" ELSE "Flash failed (exit code 2)"
NoError == "None"

\* what the erase invocation can do
EraseResults == {[kind |-> "exit", code |-> 0],
                 [kind |-> "exit", code |-> 1],
                 [kind |-> "timeout", code |-> 0]}

\* erase_outcome that does not look at the exit code of the erase
erase_outcome_ignores_code(r) ==
    IF r.kind = "timeout" THEN ErrEraseTimedOut ELSE NoError

\* lines 250-256: the error flash_device returns after the erase invocation,
\* NoError when it goes on to the write
erase_outcome(r) ==
    IF r.kind = "timeout" THEN ErrEraseTimedOut
    ELSE IF r.code # 0 THEN ErrEraseFailed
    ELSE NoError

\* captured output of the write invocation
WriteOutputs ==
    { <<"F","a","i","l","e","d"," ","t","o"," ","c","o","n","n","e","c","t">>,
      <<"T","i","m","e","d"," ","o","u","t"," ","w","a","i","t","i","n","g">>,
      <<"P","e","r","m","i","s","s","i","o","n"," ","d","e","n","i","e","d">>,
      <<"f","a","t","a","l"," ","e","r","r","o","r">> }

\* what the write invocation can do: exit with a code and captured output,
\* close its output but still run when wait(timeout=300) expires ("timeout"),
\* fail to start (Popen raises), or never exit and keep its output open
\* ("hang"), which the loop over process.stdout waits for without a bound
WriteResults ==
    [kind : {"exit"}, code : {0, 1, 2}, out : WriteOutputs]
    \cup {[kind |-> "timeout", code |-> 0, out |-> <<>>],
          [kind |-> "raise", code |-> 0, out |-> <<>>],
          [kind |-> "hang", code |-> 0, out |-> <<>>]}

\* texts and results of the write invocation when its classification is run
\* alone; a write that never exits has no result
WriteTexts ==
    { <<"F","a","i","l","e","d"," ","t","o"," ","c","o","n","n","e","c","t">>,
      <<"T","i","m","e","d"," ","o","u","t"," ","w","a","i","t","i","n","g">>,
      <<"P","e","r","m","i","s","s","i","o","n"," ","d","e","n","i","e","d">>,
      <<"f","a","t","a","l"," ","e","r","r","o","r">>,
      <<"P","e","r","m","i","s","s","i","o","n","E","r","r","o","r">>,
      <<"F","a","i","l","e","d"," ","t","o"," ","c","o","n","n","e","c","t"," ","T","i","m","e","d"," ","o","u","t">>,
      <<"T","i","m","e","d"," ","o","u","t"," ","P","e","r","m","i","s","s","i","o","n"," ","d","e","n","i","e","d">>,
      <<"p","e","r","m","i","s","s","i","o","n"," ","d","e","n","i","e","d">>,
      <<>> }

WriteReturns ==
    [kind : {"exit"}, code : {0, 1, 2}, out : WriteTexts \cup WriteOutputs]
    \cup {[kind |-> "timeout", code |-> 0, out |-> <<>>],
          [kind |-> "raise", code |-> 0, out |-> <<>>]}

\* write_error that reports a failed connection as a disconnect
write_error_disconnect(code, output) ==
    IF Contains(s_failed_to_connect, output) THEN ErrDisconnected
    ELSE IF Contains(s_timed_out, output) THEN ErrConnectTimedOut
    ELSE IF Contains(s_permission, Lower(output)) THEN ErrPortBusy
    ELSE ErrExitCode(code)

\* lines 290-299: the error message for a nonzero exit
write_error(code, output) ==
    IF Contains(s_failed_to_connect, output) THEN ErrConnectFailed
    ELSE IF Contains(s_timed_out, output) THEN ErrConnectTimedOut
    ELSE IF Contains(s_permission, Lower(output)) THEN ErrPortBusy
    ELSE ErrExitCode(code)

\* lines 285-305: (success, error) of the write step
write_outcome(r) ==
    IF r.kind = "timeout" THEN [success |-> FALSE, error |-> ErrFlashTimedOut]
    ELSE IF r.kind = "raise" THEN [success |-> FALSE, error |-> ErrException]
    ELSE IF r.code = 0 THEN [success |-> TRUE, error |-> NoError]
    ELSE [success |-> FALSE, error |-> write_error(r.code, r.out)]

(***************************************************************************)
(* Operator prompts.                                                       *)
(***************************************************************************)
\* input() raising KeyboardInterrupt or EOFError
EOF == <<"EOF">>

\* what the operator can type at a prompt
Inputs == { <<>>, <<" ">>, <<"r">>, <<"R">>, <<"e">>, <<"E", " ">>, <<"s">>,
            <<"q">>, <<"Q">>, <<"x">>, EOF }

\* prompt_retry where "r" is taken for the default choice
prompt_retry_r_is_default(inp) ==
    IF inp = EOF THEN "quit"
    ELSE LET choice == Lower(Strip(inp)) IN
         IF choice = <<>> \/ choice = <<"r">> THEN "retry"
         ELSE IF choice = <<"e">> THEN "erase"
         ELSE IF choice = <<"s">> THEN "skip"
         ELSE IF choice = <<"q">> THEN "quit"
         ELSE "invalid"

\* one pass of the loop of prompt_retry: the action returned, or "invalid"
\* when the menu is shown again
prompt_retry(inp) ==
    IF inp = EOF THEN "quit"
    ELSE LET choice == Lower(Strip(inp)) IN
         IF choice = <<>> \/ (choice = <<"r">> /\ Len(choice) = 0) THEN "retry"
         ELSE IF choice = <<"e">> THEN "erase"
         ELSE IF choice = <<"s">> THEN "skip"
         ELSE IF choice = <<"r">> THEN "rescan"
         ELSE IF choice = <<"q">> THEN "quit"
         ELSE "invalid"

\* one pass of the loop of prompt_no_devices
prompt_no_devices(inp) ==
    IF inp = EOF THEN "quit"
    ELSE LET choice == Lower(Strip(inp)) IN
         IF choice = <<>> \/ choice = <<"r">> THEN "rescan"
         ELSE IF choice = <<"q">> THEN "quit"
         ELSE "invalid"

\* one pass of the loop of prompt_disconnect
prompt_disconnect(inp) ==
    IF inp = EOF THEN "quit"
    ELSE LET choice == Lower(Strip(inp)) IN
         IF choice = <<>> \/ choice = <<"r">> THEN "rescan"
         ELSE IF choice = <<"q">> THEN "quit"
         ELSE "invalid"

\* lines 570-575: the "scan or finish" input at the end of an iteration
prompt_continue(inp) ==
    IF inp = EOF THEN "finish"
    ELSE IF Lower(Strip(inp)) = <<"q">> THEN "finish"
    ELSE "scan"

(***************************************************************************)
(* Decisions of main().                                                    *)
(***************************************************************************)
\* flash_results values: None = pending, True = success, False = skipped
Pending   == "None"
Succeeded == "True"
Skipped   == "False"

\* found_any that looks at the c5 only
found_any_c5_only(devs) == devs["c5"] # NoPort

\* line 442: found_any
found_any(devs) == devs["c5"] # NoPort \/ devs["wroom"] # NoPort

\* should_flash without the test of the outcome
should_flash_found_only(devs, results, t) == devs[t] # NoPort

\* lines 464 and 511: the guard of a device's flash block
should_flash(devs, results, t) == devs[t] # NoPort /\ results[t] = Pending

\* failure_prompt that trusts the reason flash_device gave
failure_prompt_by_reason(err, port, attached) ==
    IF err = ErrDisconnected THEN "prompt_disconnect" ELSE "prompt_retry"

\* lines 481 and 527: which prompt follows a failed attempt
failure_prompt(err, port, attached) ==
    IF ~port_exists(port, attached) THEN "prompt_disconnect" ELSE "prompt_retry"

\* next_erase_flash where "retry" does not clear the flag
next_erase_flash_sticky(act, erase) ==
    IF act = "erase" THEN TRUE ELSE erase

\* lines 490-497: erase_flash after the operator's choice
next_erase_flash(act, erase) ==
    IF act = "retry" THEN FALSE
    ELSE IF act = "erase" THEN TRUE
    ELSE erase

\* retry_next where "quit" breaks out of the attempt loop like "rescan"
retry_next_quit_breaks(act) ==
    IF act \in {"retry", "erase"} THEN "attempt"
    ELSE IF act \in {"skip", "rescan", "quit"} THEN "leave"
    ELSE "prompt"

\* lines 490-506: where control goes after one pass of the retry menu:
\* "attempt" is the continue of the attempt loop, "leave" its break, "exit"
\* the return of main, "prompt" the next pass of the menu's input loop
retry_next(act) ==
    IF act \in {"retry", "erase"} THEN "attempt"
    ELSE IF act \in {"skip", "rescan"} THEN "leave"
    ELSE IF act = "quit" THEN "exit"
    ELSE "prompt"

\* results_after_choice where "rescan" gives the device up as well
results_after_choice_rescan(results, t, act) ==
    IF act \in {"skip", "rescan"} THEN [results EXCEPT ![t] = Skipped] ELSE results

\* lines 498-500: flash_results after the operator's choice
results_after_choice(results, t, act) ==
    IF act = "skip" THEN [results EXCEPT ![t] = Skipped] ELSE results

\* lines 488-506: one response at the retry menu and what main does with it
retry_menu(inp, erase, results, t) ==
    LET act == prompt_retry(inp) IN
    [action |-> act,
     erase_flash |-> next_erase_flash(act, erase),
     flash_results |-> results_after_choice(results, t, act),
     next |-> retry_next(act)]

\* results_after_flash that does not record the success
results_after_flash_forgets(results, t, ok) == results

\* lines 473-475: flash_results after flash_device returned
results_after_flash(results, t, ok) ==
    IF ok THEN [results EXCEPT ![t] = Succeeded] ELSE results

\* lines 558-559
handled(results) == {t \in Types : results[t] # Pending}
pending(results) == {t \in Types : results[t] = Pending}

\* line 608: the status main() returns after the summary
summary_status(results) ==
    IF results["c5"] = Succeeded \/ results["wroom"] = Succeeded THEN 0 ELSE 1

(***************************************************************************)
(* State.                                                                  *)
(***************************************************************************)
VARIABLES
    attached,       \* the serial ports attached to the workstation now
    pc,             \* where main() is
    flash_results,  \* main: outcome per device type
    devices,        \* the snapshot (scan_for_devices: devices, main: devices)
    ports,          \* scan_for_devices: the sorted ports
    idx,            \* scan_for_devices: position of the next port to probe
    probed,         \* scan_for_devices: <<port, chip_type>> of each probe so far
    cur,            \* main: the device type whose flash block is running
    erase_flash,    \* main: erase_flash
    action,         \* main: action, "none" before the first prompt of a sequence
    verified,       \* flash_device: what its port_exists check found
    success,        \* main: success
    error,          \* main: error
    exit_code,      \* the status main() returned, -1 while it runs
    erase_choices,  \* "erase" choices in the current attempt sequence
    erase_calls,    \* erase invocations in the current attempt sequence
    gone_in_write,  \* the port went away during the write and is still away
    erased,         \* flash_device: how its erase invocation ended, "none" without one
    first_try,      \* every scan so far found both types, every attempt succeeded
    attempts,       \* flash_device calls per type while first_try: none, one, many
    fn,             \* the function applied last when functions are run alone
    fn_in,          \* its argument
    fn_out          \* its result

vars == <<attached, pc, flash_results, devices, ports, idx, probed, cur,
          erase_flash, action, verified, success, error, exit_code,
          erase_choices, erase_calls, gone_in_write, erased, first_try,
          attempts, fn, fn_in, fn_out>>

fn_vars == <<fn, fn_in, fn_out>>
scan_vars  == <<ports, idx, probed>>
flash_vars == <<verified, success, error, erased>>
run_vars   == <<first_try, attempts>>
count_vars == <<erase_choices, erase_calls>>

NoDevices == [t \in Types |-> NoPort]

Init ==
    /\ attached \in SUBSET Ports
    /\ pc = "scan"
    /\ flash_results = [t \in Types |-> Pending]
    /\ devices = NoDevices
    /\ ports = <<>>
    /\ idx = 0
    /\ probed = <<>>
    /\ cur = "c5"
    /\ erase_flash = FALSE
    /\ action = "none"
    /\ verified = "unchecked"
    /\ success = FALSE
    /\ error = NoError
    /\ exit_code = -1
    /\ erase_choices = 0
    /\ erase_calls = 0
    /\ gone_in_write = FALSE
    /\ erased = "none"
    /\ first_try = TRUE
    /\ attempts = [t \in Types |-> "none"]
    /\ fn = "none"
    /\ fn_in = <<>>
    /\ fn_out = <<>>

(***************************************************************************)
(* The environment: a port is plugged in or pulled out.                    *)
(***************************************************************************)
PortChange ==
    /\ pc # "exit"
    /\ UNCHANGED fn_vars
    /\ UNCHANGED run_vars
    /\ \E p \in Ports :
        /\ attached' = IF p \in attached THEN attached \ {p} ELSE attached \cup {p}
        /\ gone_in_write' =
              IF p = devices[cur] /\ p \in attached /\ pc = "flash_write" THEN TRUE
              ELSE IF p = devices[cur] THEN FALSE
              ELSE gone_in_write
    /\ UNCHANGED <<pc, flash_results, devices, cur, erase_flash, action,
                   exit_code, scan_vars, flash_vars, count_vars>>

(***************************************************************************)
(* scan_for_devices (lines 186-226) and main's use of it (lines 439-457).  *)
(***************************************************************************)
\* lines 188-200: enumerate and sort; an empty enumeration returns at once
ScanStart ==
    /\ pc = "scan"
    /\ UNCHANGED fn_vars
    /\ UNCHANGED run_vars
    /\ \E enumerated \in list_com_ports(attached) :
        /\ ports' = SortedPorts(enumerated)
        /\ idx' = IF enumerated = <<>> THEN 0 ELSE 1
        /\ pc' = IF enumerated = <<>> THEN "scanned" ELSE "probe"
    /\ devices' = NoDevices
    /\ probed' = <<>>
    /\ UNCHANGED <<attached, flash_results, cur, erase_flash, action, exit_code,
                   flash_vars, count_vars, gone_in_write>>

\* lines 202-224: one pass of the probe loop
Probe ==
    /\ pc = "probe"
    /\ UNCHANGED fn_vars
    /\ UNCHANGED run_vars
    /\ \E r \in IdentifyResults :
        LET port == ports[idx]
            chip_type == detect_chip_type(r)
            devs == record_device(devices, chip_type, port)
        IN  /\ devices' = devs
            /\ probed' = Append(probed, <<port, chip_type>>)
            /\ IF both_found(devs) \/ idx = Len(ports)
               THEN pc' = "scanned" /\ idx' = idx
               ELSE pc' = "probe" /\ idx' = idx + 1
    /\ UNCHANGED <<attached, ports, flash_results, cur, erase_flash, action,
                   exit_code, flash_vars, count_vars, gone_in_write>>

\* lines 440-457: the snapshot is back in main; the scan's locals are gone
FoundAny ==
    /\ pc = "scanned"
    /\ UNCHANGED fn_vars
    /\ first_try' = (first_try /\ both_found(devices))
    /\ attempts' = IF first_try' THEN attempts ELSE [t \in Types |-> "none"]
    /\ ports' = <<>>
    /\ idx' = 0
    /\ probed' = <<>>
    /\ cur' = "c5"
    /\ pc' = IF found_any(devices) THEN "enter" ELSE "prompt_no_devices"
    /\ UNCHANGED <<attached, flash_results, devices, erase_flash, action,
                   exit_code, flash_vars, count_vars, gone_in_write>>

\* lines 446-450
PromptNoDevices ==
    /\ pc = "prompt_no_devices"
    /\ UNCHANGED fn_vars
    /\ UNCHANGED run_vars
    /\ \E inp \in Inputs :
        LET act == prompt_no_devices(inp) IN
        /\ action' = IF act = "invalid" THEN action ELSE act
        /\ pc' = IF act = "quit" THEN "exit"
                 ELSE IF act = "rescan" THEN "scan"
                 ELSE pc
        /\ exit_code' = IF act = "quit" THEN 1 ELSE exit_code
    /\ UNCHANGED <<attached, flash_results, devices, cur, erase_flash,
                   scan_vars, flash_vars, count_vars, gone_in_write>>

(***************************************************************************)
(* The flash blocks of main (lines 463-508 for c5, 510-554 for wroom).     *)
(***************************************************************************)
\* LeaveBlock where the end of the c5 block ends the iteration as well
LeaveBlock_ends_iteration ==
    /\ pc' = "done_check"
    /\ cur' = "wroom"
    /\ erase_choices' = 0
    /\ erase_calls' = 0
    /\ verified' = "unchecked"
    /\ success' = FALSE
    /\ error' = NoError
    /\ erased' = "none"
    /\ gone_in_write' = FALSE

\* control leaves the flash block of cur: the wroom block follows the c5
\* block, the end-of-iteration check follows the wroom block.  success and
\* error are assigned by the next flash_device call before they are read
\* again, so their dead values are dropped here together with the counters.
LeaveBlock ==
    /\ pc' = IF cur = "c5" THEN "enter" ELSE "done_check"
    /\ cur' = IF cur = "c5" THEN "wroom" ELSE cur
    /\ erase_choices' = 0
    /\ erase_calls' = 0
    /\ verified' = "unchecked"
    /\ success' = FALSE
    /\ error' = NoError
    /\ erased' = "none"
    /\ gone_in_write' = FALSE

\* lines 464-468 and 511-514: enter the flash block of cur, or pass it by
EnterBlock ==
    /\ pc = "enter"
    /\ UNCHANGED fn_vars
    /\ UNCHANGED run_vars
    /\ IF should_flash(devices, flash_results, cur)
       THEN /\ erase_flash' = FALSE
            /\ action' = "none"
            /\ pc' = "flash_verify"
            /\ UNCHANGED <<cur, count_vars, flash_vars, gone_in_write>>
       ELSE /\ LeaveBlock
            /\ UNCHANGED <<erase_flash, action>>
    /\ UNCHANGED <<attached, flash_results, devices, exit_code, scan_vars>>

\* flash_device, lines 229-235: the call and its port verification
FlashVerify ==
    /\ pc = "flash_verify"
    /\ UNCHANGED fn_vars
    /\ UNCHANGED first_try
    /\ attempts' = IF ~first_try THEN attempts
                   ELSE [attempts EXCEPT ![cur] = IF @ = "none" THEN "one" ELSE "many"]
    /\ gone_in_write' = FALSE
    /\ erased' = "none"
    /\ IF ~port_exists(devices[cur], attached)
       THEN /\ verified' = "absent"
            /\ success' = FALSE
            /\ error' = ErrDisconnected
            /\ pc' = "returned"
       ELSE /\ verified' = "present"
            /\ pc' = IF erase_flash THEN "flash_erase" ELSE "flash_write"
            /\ UNCHANGED <<success, error>>
    /\ UNCHANGED <<attached, flash_results, devices, cur, erase_flash, action,
                   exit_code, scan_vars, count_vars>>

\* flash_device, lines 246-256: the erase invocation
FlashErase ==
    /\ pc = "flash_erase"
    /\ UNCHANGED fn_vars
    /\ UNCHANGED run_vars
    /\ erase_calls' = erase_calls + 1
    /\ \E r \in EraseResults :
        /\ erased' = IF r.kind = "timeout" THEN "timeout"
                      ELSE IF r.code = 0 THEN "ok" ELSE "failed"
        /\ IF erase_outcome(r) = NoError
           THEN pc' = "flash_write" /\ UNCHANGED <<success, error>>
           ELSE success' = FALSE /\ error' = erase_outcome(r) /\ pc' = "returned"
    /\ UNCHANGED <<attached, flash_results, devices, cur, erase_flash, action,
                   exit_code, scan_vars, verified, erase_choices, gone_in_write>>

\* flash_device, lines 258-305: the write invocation.  In "flash_blocked"
\* flash_device reads process.stdout (line 278) of a tool that never exits.
FlashWrite ==
    /\ pc = "flash_write"
    /\ UNCHANGED fn_vars
    /\ UNCHANGED run_vars
    /\ \E r \in WriteResults :
        IF r.kind = "hang"
        THEN pc' = "flash_blocked" /\ UNCHANGED <<success, error>>
        ELSE /\ success' = write_outcome(r).success
             /\ error' = write_outcome(r).error
             /\ pc' = "returned"
    /\ UNCHANGED <<attached, flash_results, devices, cur, erase_flash, action,
                   exit_code, scan_vars, verified, erased, count_vars,
                   gone_in_write>>

\* lines 473-488 and 519-534: main takes the result of flash_device
HandleResult ==
    /\ pc = "returned"
    /\ UNCHANGED fn_vars
    /\ first_try' = (first_try /\ success)
    /\ attempts' = IF first_try' THEN attempts ELSE [t \in Types |-> "none"]
    /\ flash_results' = results_after_flash(flash_results, cur, success)
    /\ IF success
       THEN LeaveBlock
       ELSE /\ pc' = failure_prompt(error, devices[cur], attached)
            /\ UNCHANGED <<cur, count_vars, flash_vars, gone_in_write>>
    /\ UNCHANGED <<attached, devices, erase_flash, action, exit_code, scan_vars>>

\* lines 482-486 and 528-532
PromptDisconnect ==
    /\ pc = "prompt_disconnect"
    /\ UNCHANGED fn_vars
    /\ UNCHANGED run_vars
    /\ \E inp \in Inputs :
        LET act == prompt_disconnect(inp) IN
        /\ action' = IF act = "invalid" THEN action ELSE act
        /\ exit_code' = IF act = "quit" THEN 1 ELSE exit_code
        /\ IF act = "quit"
           THEN pc' = "exit" /\ UNCHANGED <<cur, count_vars, flash_vars, gone_in_write>>
           ELSE IF act = "rescan" THEN LeaveBlock
           ELSE UNCHANGED <<pc, cur, count_vars, flash_vars, gone_in_write>>
    /\ UNCHANGED <<attached, flash_results, devices, erase_flash, scan_vars>>

\* lines 488-506 and 534-552.  On "retry" and "erase" the loop calls
\* flash_device again, which assigns success and error before they are read:
\* their dead values are dropped.
PromptRetry ==
    /\ pc = "prompt_retry"
    /\ UNCHANGED fn_vars
    /\ UNCHANGED run_vars
    /\ \E inp \in Inputs :
        LET act == prompt_retry(inp) IN
        /\ act = "erase" => erase_choices < MaxErase
        /\ action' = IF act = "invalid" THEN action ELSE act
        /\ erase_flash' = next_erase_flash(act, erase_flash)
        /\ flash_results' = results_after_choice(flash_results, cur, act)
        /\ exit_code' = IF retry_next(act) = "exit" THEN 1 ELSE exit_code
        /\ IF retry_next(act) = "attempt"
           THEN /\ pc' = "flash_verify"
                /\ erase_choices' = IF act = "erase" THEN erase_choices + 1
                                    ELSE erase_choices
                /\ verified' = "unchecked"
                /\ success' = FALSE
                /\ error' = NoError
                /\ erased' = "none"
                /\ UNCHANGED <<cur, erase_calls, gone_in_write>>
           ELSE IF retry_next(act) = "leave" THEN LeaveBlock
           ELSE IF retry_next(act) = "exit"
           THEN pc' = "exit" /\ UNCHANGED <<cur, count_vars, flash_vars, gone_in_write>>
           ELSE UNCHANGED <<pc, cur, count_vars, flash_vars, gone_in_write>>
    /\ UNCHANGED <<attached, devices, scan_vars>>

(***************************************************************************)
(* End of an iteration and the summary (lines 556-608).                    *)
(***************************************************************************)
\* lines 558-567: all handled ends the loop; something handled asks the
\* operator; nothing handled scans again
DoneCheck ==
    /\ pc = "done_check"
    /\ UNCHANGED fn_vars
    /\ UNCHANGED run_vars
    /\ IF pending(flash_results) = {}
       THEN pc' = "exit" /\ exit_code' = summary_status(flash_results)
       ELSE IF handled(flash_results) # {}
       THEN pc' = "prompt_continue" /\ UNCHANGED exit_code
       ELSE pc' = "scan" /\ UNCHANGED exit_code
    /\ UNCHANGED <<attached, flash_results, devices, cur, erase_flash, action,
                   scan_vars, flash_vars, count_vars, gone_in_write>>

\* lines 568-576, then the summary
PromptContinue ==
    /\ pc = "prompt_continue"
    /\ UNCHANGED fn_vars
    /\ UNCHANGED run_vars
    /\ \E inp \in Inputs :
        IF prompt_continue(inp) = "finish"
        THEN pc' = "exit" /\ exit_code' = summary_status(flash_results)
        ELSE pc' = "scan" /\ UNCHANGED exit_code
    /\ UNCHANGED <<attached, flash_results, devices, cur, erase_flash, action,
                   scan_vars, flash_vars, count_vars, gone_in_write>>

Next ==
    \/ PortChange
    \/ ScanStart
    \/ Probe
    \/ FoundAny
    \/ PromptNoDevices
    \/ EnterBlock
    \/ FlashVerify
    \/ FlashErase
    \/ FlashWrite
    \/ HandleResult
    \/ PromptDisconnect
    \/ PromptRetry
    \/ DoneCheck
    \/ PromptContinue

Spec == Init /\ [][Next]_vars

(***************************************************************************)
(* The functions of the program run alone: one action applies one function *)
(* to an argument and keeps the argument and the result; the session does  *)
(* not run.                                                                *)
(***************************************************************************)
session_vars == <<attached, pc, flash_results, devices, ports, idx, probed, cur,
                  erase_flash, action, verified, success, error, exit_code,
                  erase_choices, erase_calls, gone_in_write, erased, first_try,
                  attempts>>

InitFn == Init /\ attached = {}

\* detect_chip_type, lines 159-183
ApplyDetectChipType ==
    /\ \E r \in ChipResults :
        /\ fn' = "detect_chip_type"
        /\ fn_in' = r
        /\ fn_out' = detect_chip_type(r)
    /\ UNCHANGED session_vars

\* flash_device, lines 285-305: the result of the write step
ApplyWriteOutcome ==
    /\ \E r \in WriteReturns :
        /\ fn' = "write_outcome"
        /\ fn_in' = r
        /\ fn_out' = write_outcome(r)
    /\ UNCHANGED session_vars

\* prompt_retry and main's handling of its result, lines 308-334, 488-506
ApplyRetryMenu ==
    /\ \E inp \in Inputs, erase \in BOOLEAN, t \in Types,
          results \in [Types -> {Pending, Succeeded, Skipped}] :
        /\ fn' = "retry_menu"
        /\ fn_in' = [inp |-> inp, erase_flash |-> erase, flash_results |-> results,
                     t |-> t]
        /\ fn_out' = retry_menu(inp, erase, results, t)
    /\ UNCHANGED session_vars

NextFn ==
    \/ ApplyDetectChipType
    \/ ApplyWriteOutcome
    \/ ApplyRetryMenu

SpecFn == InitFn /\ [][NextFn]_vars

(***************************************************************************)
(* Properties.                                                             *)
(***************************************************************************)
Terminal(t) == flash_results[t] \in {Succeeded, Skipped}

InFlashDevice == pc \in {"flash_verify", "flash_erase", "flash_write"}

\* C1: flash_device runs for a device type only while that type's outcome
\* is pending: once the outcome is Succeeded or Skipped no later scan and no
\* operator choice leads to another invocation for the type.
C1_NoFlashAfterTerminal == InFlashDevice => flash_results[cur] = Pending

\* a later scan found the wroom again after its outcome became terminal, and
\* main stands before the wroom block
C1_Witness ==
    /\ pc = "enter"
    /\ cur = "wroom"
    /\ Terminal("wroom")
    /\ devices["wroom"] # NoPort
    /\ flash_results["c5"] = Pending

\* C2: an outcome changes only from pending: to Succeeded in the step where
\* main takes a successful result of flash_device for that type, or to
\* Skipped in the step where the operator chose "skip" for that type.
C2_OutcomeOnlyByTerminalEvent ==
    [][\A t \in Types :
          flash_results'[t] # flash_results[t] =>
             /\ flash_results[t] = Pending
             /\ cur = t
             /\ \/ flash_results'[t] = Succeeded /\ pc = "returned" /\ success
                \/ flash_results'[t] = Skipped /\ pc = "prompt_retry"
                                               /\ action' = "skip"]_vars

\* the session ended with one type succeeded and the other skipped by the
\* operator
C2_Witness ==
    /\ flash_results["c5"] = Succeeded
    /\ flash_results["wroom"] = Skipped
    /\ action = "skip"
    /\ pc = "exit"

\* C3: during an attempt erase_flash is set exactly when the operator's last
\* choice of this attempt sequence was "erase" (so it is clear on the first
\* attempt), the erase runs only after such a choice, and a sequence has no
\* more erase invocations than "erase" choices.
C3_EraseOnlyAfterEraseChoice ==
    /\ InFlashDevice => (erase_flash <=> action = "erase")
    /\ pc = "flash_erase" => action = "erase"
    /\ erase_calls <= erase_choices

\* failure, "erase", success: one erase invocation
C3_Witness ==
    /\ pc = "returned"
    /\ cur = "c5"
    /\ success
    /\ action = "erase"
    /\ erase_choices = 1
    /\ erase_calls = 1

\* C4: a failure whose reason is Disconnected is never followed by the
\* retry/erase/skip/rescan/quit menu.
C4_DisconnectedNeverRetryMenu ==
    pc = "prompt_retry" => (error # ErrDisconnected /\ verified # "absent")

\* C5: flash_device returns the Disconnected failure exactly when its own
\* port verification found the port absent, whatever the tool printed or
\* returned.
C5_DisconnectedIffAbsentAtVerify ==
    pc \in {"returned", "prompt_retry", "prompt_disconnect"} =>
        (error = ErrDisconnected <=> verified = "absent")

\* the port is away when flash_device returns, the tool reported a failed
\* connection, and the verification had found the port
C5_Witness ==
    /\ pc = "returned"
    /\ verified = "present"
    /\ ~success
    /\ error = ErrConnectFailed
    /\ devices[cur] \notin attached

FirstProbed(t) ==
    IF \E i \in 1..Len(probed) : probed[i][2] = t
    THEN probed[CHOOSE i \in 1..Len(probed) :
                   /\ probed[i][2] = t
                   /\ \A j \in 1..(i - 1) : probed[j][2] # t][1]
    ELSE NoPort

\* C7: the snapshot a scan returns records, for each device type, the first
\* port in probe order that classified as that type.
C7_FirstFoundWins ==
    pc = "scanned" => \A t \in Types : devices[t] = FirstProbed(t)

\* C8: a snapshot never assigns one port to both device types.
C8_SnapshotPortsDistinct ==
    devices["c5"] # NoPort => devices["c5"] # devices["wroom"]

\* a scan that found both types
C8_Witness ==
    /\ pc = "scanned"
    /\ both_found(devices)
    /\ Len(probed) = 2

\* C9: a session that ends with a device type Succeeded ends with status 0.
C9_ExitSuccessIfAnySucceeded ==
    (pc = "exit" /\ \E t \in Types : flash_results[t] = Succeeded)
    => exit_code = 0

\* some type is terminal, some is pending, and no pending type is in the
\* snapshot of this iteration
PendingAllAbsent ==
    /\ handled(flash_results) # {}
    /\ pending(flash_results) # {}
    /\ \A t \in pending(flash_results) : devices[t] = NoPort

\* C10: at the end of an iteration the "scan or finish" choice is offered
\* exactly when some type is terminal and every pending type was absent from
\* the iteration's snapshot; declining it ends the session with the outcomes
\* unchanged.
C10_ContinueChoiceIffPendingAbsent ==
    [][/\ (pc = "done_check" /\ pc' # pc) =>
              (pc' = "prompt_continue" <=> PendingAllAbsent)
       /\ (pc = "prompt_continue" /\ pc' = "exit") =>
              flash_results' = flash_results]_vars

\* the prompts where the operator can quit
DecisionPoints == {"prompt_retry", "prompt_disconnect", "prompt_no_devices"}

\* C11: a scan that finds no device is followed by the rescan/quit prompt
\* and by nothing else; the prompt is left only for a new scan ("rescan", to
\* which an empty response maps) or by the operator's quit; a scan that
\* finds a device goes on to the flash blocks, where a found pending type is
\* flashed; and scanning ends the session in no other way.
C11_NoSilentExitWithoutDevices ==
    /\ [](\A inp \in Inputs \ {EOF} :
            Strip(inp) = <<>> => prompt_no_devices(inp) = "rescan")
    /\ [][/\ (pc = "scanned" /\ pc' # pc) =>
                 /\ devices = NoDevices => pc' = "prompt_no_devices"
                 /\ devices # NoDevices => pc' = "enter"
          /\ (pc = "prompt_no_devices" /\ pc' # pc) =>
                 \/ action' = "rescan" /\ pc' = "scan"
                 \/ action' = "quit" /\ pc' = "exit"
          /\ (pc = "enter" /\ pc' # pc /\ devices[cur] # NoPort
                 /\ flash_results[cur] = Pending) => pc' = "flash_verify"
          /\ (pc \in {"scan", "probe", "scanned"}) => pc' # "exit"]_vars

\* the no-devices prompt was answered with a rescan and the next scan is due
C11_Witness ==
    /\ pc = "scan"
    /\ action = "rescan"
    /\ devices = NoDevices

\* C12: the step in which the operator chooses "quit" is taken at a decision
\* point, ends the session at once and changes no outcome; after the session
\* ended nothing happens any more.
C12_QuitReturnsAtOnce ==
    [][/\ (pc \in DecisionPoints /\ pc' # pc /\ pc' # "exit") => action' # "quit"
       /\ (pc \in DecisionPoints /\ pc' = "exit") =>
              /\ action' = "quit"
              /\ exit_code' = 1
              /\ UNCHANGED <<flash_results, devices, scan_vars, erase_calls>>
       /\ pc # "exit"]_vars

\* the operator quit while one type had succeeded and the other was pending
C12_Witness ==
    /\ pc = "exit"
    /\ action = "quit"
    /\ flash_results["c5"] = Succeeded
    /\ flash_results["wroom"] = Pending

\* flash_device has been called and has not returned
InFlashCall == InFlashDevice \/ pc = "flash_blocked"

\* C13: flash_device is never blocked: while a call has not returned, its
\* next step (verification, erase result, write result or write timeout) can
\* be taken, also when the write invocation never exits.
C13_FlashDeviceNeverBlocked ==
    InFlashCall => ENABLED (FlashVerify \/ FlashErase \/ FlashWrite)

RecoveryPrompts == {"prompt_retry", "prompt_disconnect", "prompt_no_devices"}

\* C14: while every scan has assigned a port to both types and every flash
\* attempt has succeeded, no type is attempted twice, no erase is requested
\* or run, and no recovery prompt is shown; a session that ends this way has
\* attempted each type exactly once, has both outcomes Succeeded and
\* returns 0.
C14_BothSucceedFirstTry ==
    /\ first_try =>
          /\ \A t \in Types : attempts[t] \in {"none", "one"}
          /\ ~erase_flash /\ pc # "flash_erase" /\ erased = "none"
          /\ pc \notin RecoveryPrompts \cup {"prompt_continue"}
          /\ \A t \in Types : flash_results[t] \in {Pending, Succeeded}
    /\ (first_try /\ pc = "exit") =>
          /\ \A t \in Types : attempts[t] = "one" /\ flash_results[t] = Succeeded
          /\ exit_code = 0

C14_Witness ==
    /\ first_try /\ pc = "exit"
    /\ devices["c5"] # NoPort /\ devices["wroom"] # NoPort

\* C17: inside flash_device the write is invoked only after the port was
\* found present and, with erase-first, after the erase exited with code 0;
\* with the port absent no erase is invoked; a failed or timed-out erase
\* returns "Erase failed" / "Erase timed out" and the write is not invoked.
C17_WriteOnlyAfterVerifyAndErase ==
    /\ pc \in {"flash_write", "flash_blocked"} =>
          /\ verified = "present"
          /\ erase_flash => erased = "ok"
    /\ pc = "flash_erase" => verified = "present" /\ erase_flash
    /\ verified = "absent" => erased = "none" /\ pc \notin {"flash_erase", "flash_write"}
    /\ erased = "failed" => pc # "flash_write" /\ ~success /\ error = ErrEraseFailed
    /\ erased = "timeout" => pc # "flash_write" /\ ~success /\ error = ErrEraseTimedOut

C17_Witness ==
    /\ pc = "returned" /\ erased = "failed" /\ error = ErrEraseFailed

\* the trailing run of digits of a port identifier
RECURSIVE TrailingDigits(_)
TrailingDigits(p) ==
    IF p = <<>> \/ ~IsDigit(p[Len(p)]) THEN <<>>
    ELSE Append(TrailingDigits(SubSeq(p, 1, Len(p) - 1)), p[Len(p)])

\* the numeric suffix of a port identifier, 0 when it has none
NumericSuffix(p) == DigitsValue(TrailingDigits(p), 0)

\* C20: the scan probes the enumerated ports in descending order of their
\* numeric suffix: of two ports in the probe order, the earlier one never
\* has the smaller suffix.
C20_ProbedBySuffixDescending ==
    pc \in {"probe", "scanned"} =>
        \A i, j \in 1..Len(ports) :
            i < j => NumericSuffix(ports[i]) >= NumericSuffix(ports[j])

\* C15: an identify invocation that timed out, raised or exited nonzero is
\* classified as Unknown, whatever it printed.
C15_FailedIdentifyIsUnknown ==
    (fn = "detect_chip_type" /\ (fn_in.kind # "exit" \/ fn_in.code # 0))
        => fn_out = NoChip

\* chip names in an identify output, compared without regard to letter case
NamesC5(out) ==
    \/ Contains(<<"e","s","p","3","2","-","c","5">>, Lower(out))
    \/ Contains(<<"e","s","p","3","2","c","5">>, Lower(out))
NamesOtherC(out) ==
    \E name \in {<<"e","s","p","3","2","-","c","2">>, <<"e","s","p","3","2","-","c","3">>, <<"e","s","p","3","2","-","c","6">>, <<"e","s","p","3","2","c","2">>, <<"e","s","p","3","2","c","3">>, <<"e","s","p","3","2","c","6">>} : Contains(name, Lower(out))
NamesESP32(out) == Contains(<<"e","s","p","3","2">>, Lower(out))

\* C16: an identify output naming the ESP32-C5 is classified c5; one naming
\* another C-series chip and not the C5 is Unknown; one naming an ESP32 and
\* no C-series chip is wroom; so another C-series chip is never taken for a
\* supported type.
C16_ClassifiedByChipName ==
    (fn = "detect_chip_type" /\ fn_in.kind = "exit") =>
        /\ Contains(<<"e","s","p","3","2","-","c","5">>, Lower(fn_in.out)) => fn_out = "c5"
        /\ (NamesOtherC(fn_in.out) /\ ~NamesC5(fn_in.out)) => fn_out = NoChip
        /\ (NamesESP32(fn_in.out) /\ ~NamesOtherC(fn_in.out) /\ ~NamesC5(fn_in.out))
              => fn_out = "wroom"

C16_Witness ==
    /\ fn = "detect_chip_type" /\ fn_in.kind = "exit"
    /\ NamesOtherC(fn_in.out) /\ ~NamesC5(fn_in.out) /\ fn_out = NoChip

\* C18: a write that exits nonzero fails with the reason of the first marker
\* its output carries, in the order failed-to-connect, timed-out,
\* permission-denied, and with the exit code when it carries none.
C18_WriteFailureByPriority ==
    (fn = "write_outcome" /\ fn_in.kind = "exit" /\ fn_in.code # 0) =>
        /\ ~fn_out.success
        /\ fn_out.error =
              IF Contains(<<"F","a","i","l","e","d"," ","t","o"," ","c","o","n","n","e","c","t">>, fn_in.out) THEN ErrConnectFailed
              ELSE IF Contains(<<"T","i","m","e","d"," ","o","u","t">>, fn_in.out) THEN ErrConnectTimedOut
              ELSE IF Contains(<<"P","e","r","m","i","s","s","i","o","n">>, fn_in.out) THEN ErrPortBusy
              ELSE ErrExitCode(fn_in.code)

\* the responses the retry menu accepts
ValidRetryChoice(inp) ==
    inp = EOF \/ Lower(Strip(inp)) \in {<<>>, <<"e">>, <<"s">>, <<"r">>, <<"q">>}

\* C19: at the retry menu a response that is no valid choice changes neither
\* the outcomes nor erase-first and shows the menu again; the empty response
\* is "retry", clears erase-first and starts a new attempt; "r" is "rescan",
\* not "retry", and starts no attempt.
C19_RetryMenuResponses ==
    fn = "retry_menu" =>
        /\ ~ValidRetryChoice(fn_in.inp) =>
              /\ fn_out.next = "prompt"
              /\ fn_out.flash_results = fn_in.flash_results
              /\ fn_out.erase_flash = fn_in.erase_flash
        /\ ValidRetryChoice(fn_in.inp) => fn_out.next # "prompt"
        /\ (fn_in.inp # EOF /\ Strip(fn_in.inp) = <<>>) =>
              /\ fn_out.action = "retry"
              /\ fn_out.erase_flash = FALSE
              /\ fn_out.next = "attempt"
              /\ fn_out.flash_results = fn_in.flash_results
        /\ (fn_in.inp # EOF /\ Lower(Strip(fn_in.inp)) = <<"r">>) =>
              /\ fn_out.action = "rescan"
              /\ fn_out.next = "leave"
              /\ fn_out.erase_flash = fn_in.erase_flash
              /\ fn_out.flash_results = fn_in.flash_results

C19_Witness ==
    /\ fn = "retry_menu" /\ fn_in.inp = <<"R">> /\ fn_in.erase_flash
    /\ fn_out.action = "rescan"

\* C21: "rescan" at a c5 prompt (retry menu or reconnect prompt) goes on to
\* the wroom block of the same iteration, not to a scan; a wroom that is in
\* the snapshot and Pending is then flashed on that snapshot; a scan starts
\* only after the wroom block, at the end of the iteration; and inside one
\* iteration the blocks run c5 first, wroom second, a block changing only
\* when no flash_device call is running.
C21_WroomRunsBeforeRescan ==
    [][/\ (pc \in {"prompt_retry", "prompt_disconnect"} /\ cur = "c5"
              /\ pc' # pc /\ action' = "rescan") =>
                  /\ pc' = "enter" /\ cur' = "wroom"
                  /\ devices' = devices /\ flash_results' = flash_results
       /\ (pc = "enter" /\ cur = "wroom" /\ pc' # pc /\ devices["wroom"] # NoPort
              /\ flash_results["wroom"] = Pending) =>
                  pc' = "flash_verify" /\ cur' = "wroom" /\ devices' = devices
       /\ (pc # "scan" /\ pc' = "scan") =>
              /\ pc \in {"done_check", "prompt_continue", "prompt_no_devices"}
              /\ pc # "prompt_no_devices" => cur = "wroom"
       /\ pc \notin {"scan", "probe"} => devices' = devices
       /\ (cur = "wroom" /\ cur' = "c5") => pc = "scanned"
       /\ (cur = "c5" /\ cur' = "wroom") => (~InFlashCall /\ pc' = "enter")
       /\ InFlashCall' => (cur' = cur /\ pc \in {"enter", "prompt_retry"} \cup
                                                {"flash_verify", "flash_erase",
                                                 "flash_write", "flash_blocked"})]_vars

\* the wroom is being written while the c5 of the same snapshot is still
\* Pending: the c5 block was left by "rescan"
C21_Witness ==
    /\ pc = "flash_write" /\ cur = "wroom"
    /\ devices["c5"] # NoPort /\ flash_results["c5"] = Pending

====
